---- MODULE Spec2Model ----
(***************************************************************************)
(* A model of lithium_battery.ipynb: the .mat -> CSV extraction            *)
(* (process_battery, preprocess_and_save_csv), the pure numeric helpers    *)
(* (anchor_resample, simple_ecm, the R^2 of evaluate_model and             *)
(* ecm_baseline_eval) and the training loop with its checkpoint file       *)
(* (train_model, evaluate_model).                                          *)
(*                                                                         *)
(* Numbers.  A Python/numpy float is modelled as an exact rational in      *)
(* lowest terms, or one of the three IEEE specials the code can produce    *)
(* (nan, +inf, -inf): [k, n, d] with k the kind, n/d the value (d > 0).    *)
(* Rounding of finite values is not modelled; the specials are, because    *)
(* numpy returns them from a division by zero instead of raising.          *)
(***************************************************************************)
EXTENDS Integers, Sequences, FiniteSets, TLC

VARIABLES
    \* ---- pure-function harness
    fn,         \* the function under call
    args,       \* its arguments
    ret,        \* its result once returned
    fpc,        \* "idle" | "call" | "returned" | "raised"
    \* ---- extraction (preprocess_and_save_csv)
    batteries,  \* the metadata mapping, as the ordered items() sequence
    num_points, \* parameter num_points
    max_cycles, \* parameter max_cycles
    bidx,       \* position of the for loop over batteries.items()
    all_data,   \* rows accumulated so far
    csv,        \* the CSV written by df.to_csv (sequence of rows)
    xpc,        \* "idle" | "loop" | "save" | "done" | "raised"
    \* ---- training (train_model / evaluate_model)
    run,        \* per run: the arguments of train_model
    tpc,        \* per run: "off" | "loop" | "restore" | "returned" | "raised" | "evaluated"
    epoch,      \* per run: number of epochs completed
    weights,    \* per run: the model's current parameters
    best_val_loss,
    train_loss_history,
    val_loss_history,
    fed,        \* per run: the predictions last fed to the loss / the metrics
    saved_at,   \* per run: the epochs at which this call wrote its checkpoint
    files,      \* the checkpoint files on disk: file name -> saved parameters
    \* ---- loading (main, steps 2 and 3)
    origin,     \* the metadata and raw cycles the CSV was extracted from
    df,         \* the CSV at csv_path, as rows
    ld_args,    \* num_points and max_cycles given to load_cycles_from_csv
    split,      \* what load_cycles_from_csv returned
    train_ds,   \* make_tf_dataset(train_cycles, train_soc, ..)
    val_ds,     \* make_tf_dataset(val_cycles, val_soc, ..)
    ecm_result, \* what ecm_baseline_eval returned
    mpc         \* "idle" | "load" | "loaded" | "datasets" | "done" | "raised"

pureVars  == <<fn, args, ret, fpc>>
extVars   == <<batteries, num_points, max_cycles, bidx, all_data, csv, xpc>>
trainVars == <<run, tpc, epoch, weights, best_val_loss, train_loss_history,
               val_loss_history, fed, saved_at, files>>
loadVars  == <<origin, df, ld_args, split, train_ds, val_ds, ecm_result, mpc>>
vars      == <<pureVars, extVars, trainVars, loadVars>>

-----------------------------------------------------------------------------
(* Floats *)

Abs(i) == IF i < 0 THEN -i ELSE i

RECURSIVE GCD(_, _)
GCD(a, b) == IF b = 0 THEN a ELSE GCD(b, a % b)

\* The finite value n/d (d # 0), in lowest terms with a positive denominator.
Fin(n, d) ==
    LET s == IF d < 0 THEN -1 ELSE 1
        g == GCD(Abs(n), Abs(d))
    IN  [k |-> "fin", n |-> (s * n) \div g, d |-> (s * d) \div g]

R(i)  == [k |-> "fin", n |-> i, d |-> 1]
NaN   == [k |-> "nan", n |-> 0, d |-> 1]
PInf  == [k |-> "inf", n |-> 1, d |-> 1]
NInf  == [k |-> "inf", n |-> -1, d |-> 1]

IsFinite(a) == a.k = "fin"
IsNaN(a)    == a.k = "nan"
Sign(a)     == IF a.n > 0 THEN 1 ELSE IF a.n < 0 THEN -1 ELSE 0

FNeg(a) == IF a.k = "nan" THEN NaN ELSE [a EXCEPT !.n = -a.n]

\* IEEE addition: nan is absorbing, inf + (-inf) = nan.  (Finite values are
\* added over the least common denominator, which keeps the integers small.)
FAdd(a, b) ==
    IF a.k = "nan" \/ b.k = "nan" THEN NaN
    ELSE IF a.k = "inf" /\ b.k = "inf" THEN (IF a.n = b.n THEN a ELSE NaN)
    ELSE IF a.k = "inf" THEN a
    ELSE IF b.k = "inf" THEN b
    ELSE LET g == GCD(a.d, b.d)
         IN  Fin(a.n * (b.d \div g) + b.n * (a.d \div g), (a.d \div g) * b.d)

FSub(a, b) == FAdd(a, FNeg(b))

\* IEEE multiplication: 0 * inf = nan.  (Finite values are multiplied
\* after the common factors across the two fractions are cancelled.)
FMul(a, b) ==
    IF a.k = "nan" \/ b.k = "nan" THEN NaN
    ELSE IF a.k = "inf" \/ b.k = "inf"
         THEN (IF Sign(a) * Sign(b) = 0 THEN NaN
               ELSE IF Sign(a) * Sign(b) > 0 THEN PInf ELSE NInf)
    ELSE LET g1 == GCD(Abs(a.n), b.d)
             g2 == GCD(Abs(b.n), a.d)
         IN  Fin((a.n \div g1) * (b.n \div g2), (a.d \div g2) * (b.d \div g1))

\* numpy division: x/0 is nan for x = 0 and a signed inf otherwise (a
\* RuntimeWarning, not an exception).
FDiv(a, b) ==
    IF a.k = "nan" \/ b.k = "nan" THEN NaN
    ELSE IF a.k = "inf" /\ b.k = "inf" THEN NaN
    ELSE IF b.k = "inf" THEN R(0)
    ELSE IF b.n = 0
         THEN (IF Sign(a) = 0 THEN NaN ELSE IF Sign(a) > 0 THEN PInf ELSE NInf)
    ELSE IF a.k = "inf" THEN (IF Sign(a) * Sign(b) > 0 THEN PInf ELSE NInf)
    ELSE FMul(a, Fin(b.d, b.n))

\* a < b as Python evaluates it: every comparison with nan is False.
FLt(a, b) ==
    IF a.k = "nan" \/ b.k = "nan" THEN FALSE
    ELSE IF a.k = "inf" THEN a.n < 0 /\ ~(b.k = "inf" /\ b.n < 0)
    ELSE IF b.k = "inf" THEN b.n > 0
    ELSE FSub(a, b).n < 0

FLe(a, b) == a.k # "nan" /\ b.k # "nan" /\ ~FLt(b, a)

\* A value of the closed interval [0,1].
InUnit(a) == FLe(R(0), a) /\ FLe(a, R(1))

\* np.clip(x, lo, hi) = minimum(maximum(x, lo), hi); nan stays nan.
NoClip(x, lo, hi) == x
Clip(x, lo, hi) ==
    IF x.k = "nan" THEN NaN
    ELSE IF FLt(x, lo) THEN lo
    ELSE IF FLt(hi, x) THEN hi
    ELSE x

RECURSIVE FSum(_)
FSum(s) == IF s = <<>> THEN R(0) ELSE FAdd(s[1], FSum(Tail(s)))

FSq(a) == FMul(a, a)

RECURSIVE Concat(_)
Concat(ss) == IF ss = <<>> THEN <<>> ELSE ss[1] \o Concat(Tail(ss))

-----------------------------------------------------------------------------
(* Pure numeric helpers *)

\* np.linspace(0, stop, num=num): num evenly spaced values, the last one
\* exactly stop when num >= 2; the single value 0 when num = 1; empty when
\* num = 0.
\* (as np.linspace(..., endpoint=False) would space them)
linspace_open(stop, num) ==
    [j \in 1..num |-> Fin((j - 1) * stop, num)]

linspace(stop, num) ==
    [j \in 1..num |-> IF num = 1 THEN R(0) ELSE Fin((j - 1) * stop, num - 1)]

\* np.interp(t, [0, 1, .., n-1], x) for one target t in [0, n-1] (n >= 2):
\* linear interpolation between the two neighbouring samples; at the last
\* sample position the last sample itself.
interp(t, x) ==
    LET n  == Len(x)
        lo == t.n \div t.d
    IN  IF lo >= n - 1 THEN x[n]
        ELSE FAdd(x[lo + 1], FMul(FSub(t, R(lo)), FSub(x[lo + 2], x[lo + 1])))

\* (as it would be without the padding of the empty and one-element inputs)
anchor_resample_unpadded(x, np) ==
    IF Len(x) <= 1 THEN x
    ELSE LET target_indices == linspace(Len(x) - 1, np)
         IN  [j \in 1..np |-> interp(target_indices[j], x)]

anchor_resample(x, np) ==
    IF Len(x) = 0 THEN [j \in 1..np |-> R(0)]
    ELSE IF Len(x) = 1 THEN [j \in 1..np |-> x[1]]
    ELSE LET target_indices == linspace(Len(x) - 1, np)
         IN  [j \in 1..np |-> interp(target_indices[j], x)]

\* simple_ecm: the loop body applied to current[i..], soc the value held
\* before sample i; the profile is the soc after each step.
RECURSIVE ecm_loop(_, _, _, _, _)
ecm_loop(current, i, soc, delta_t, capacity) ==
    IF i > Len(current) THEN <<>>
    ELSE LET dec  == FDiv(FMul(current[i], delta_t), FMul(capacity, R(3600)))
             soc1 == Clip(FSub(soc, dec), R(0), R(1))
         IN  <<soc1>> \o ecm_loop(current, i + 1, soc1, delta_t, capacity)

simple_ecm(current, delta_t, capacity) ==
    ecm_loop(current, 1, R(1), delta_t, capacity)

\* The defaults of simple_ecm's signature.
DefaultDeltaT   == R(1)
DefaultCapacity == R(2)

\* np.mean of a non-empty array.
FMean(s) == FDiv(FSum(s), R(Len(s)))

\* r2 = 1 - sum((preds - trues)**2) / sum((trues - mean(trues))**2)
r2_score(preds, trues) ==
    LET m      == FMean(trues)
        ss_res == FSum([i \in 1..Len(preds) |-> FSq(FSub(preds[i], trues[i]))])
        ss_tot == FSum([i \in 1..Len(trues) |-> FSq(FSub(trues[i], m))])
    IN  FSub(R(1), FDiv(ss_res, ss_tot))

\* mae = mean(|preds - trues|)
FAbs(a) == IF a.k = "nan" THEN NaN ELSE [a EXCEPT !.n = Abs(a.n)]
mae_score(preds, trues) ==
    FMean([i \in 1..Len(preds) |-> FAbs(FSub(preds[i], trues[i]))])

\* mean((preds - trues)**2): rmse is its square root, kept squared here.
mse_score(preds, trues) ==
    FMean([i \in 1..Len(preds) |-> FSq(FSub(preds[i], trues[i]))])

\* The prediction evaluate_model compares with the truth (line 323).
eval_pred_soc(ecm_in, ecm_soc, pred) ==
    IF ecm_in THEN FAdd(ecm_soc, pred) ELSE pred

\* The prediction train_model feeds to the loss in the training pass
\* (lines 283-290).
train_pred_soc(loss_type, ecm_in, ecm_soc, pred) ==
    IF loss_type = "mse"
    THEN (IF ecm_in THEN FAdd(ecm_soc, pred) ELSE pred)
    ELSE FAdd(ecm_soc, pred)

\* The prediction train_model feeds to the loss in the validation pass
\* (lines 296-303).
val_pred_soc(loss_type, ecm_in, ecm_soc, pred) ==
    IF loss_type = "mse"
    THEN (IF ecm_in THEN FAdd(ecm_soc, pred) ELSE pred)
    ELSE FAdd(ecm_soc, pred)

\* evaluate_model over the samples of val_ds, each [ecm, pred, true]:
\* raises (np.concatenate of an empty list) when val_ds is empty.
evaluate_model(samples, ecm_in) ==
    IF samples = <<>> THEN [raised |-> TRUE]
    ELSE LET preds == [i \in 1..Len(samples) |->
                          eval_pred_soc(ecm_in, samples[i].ecm, samples[i].pred)]
             trues == [i \in 1..Len(samples) |-> samples[i].true]
         IN  [raised |-> FALSE, preds |-> preds, trues |-> trues,
              mse |-> mse_score(preds, trues), mae |-> mae_score(preds, trues),
              r2 |-> r2_score(preds, trues)]

\* ecm_baseline_eval over val_cycles (each with its current) and val_soc.
ecm_baseline_eval(val_cycles, val_soc, np) ==
    LET k == IF Len(val_cycles) < Len(val_soc) THEN Len(val_cycles) ELSE Len(val_soc)
        preds == Concat([i \in 1..k |->
                    anchor_resample(simple_ecm(val_cycles[i].current,
                                               DefaultDeltaT, DefaultCapacity), np)])
        trues == Concat([i \in 1..k |-> anchor_resample(val_soc[i], np)])
    IN  IF k = 0 THEN [raised |-> TRUE]
        ELSE [raised |-> FALSE, preds |-> preds, trues |-> trues,
              mse |-> mse_score(preds, trues), mae |-> mae_score(preds, trues),
              r2 |-> r2_score(preds, trues)]

\* Whether every value of s is the same.
ZeroVariance(s) == \A i \in 1..Len(s) : s[i] = s[1]

-----------------------------------------------------------------------------
(* Bounds and input domains *)

MaxLen      == 3    \* longest input sequence of anchor_resample / simple_ecm
MaxPoints   == 3    \* largest num_points
MaxSamples  == 2    \* most samples of a validation set given to evaluate_model
MaxBatteries == 2   \* most batteries of the metadata mapping
MaxCyclesPerBattery == 3  \* most entries of a battery's cycle collection
MaxCap      == 3    \* largest max_cycles
MaxEpochs   == 3    \* largest epochs of a single training run

SeqsUpTo(S, n) == UNION {[1..k -> S] : k \in 0..n}

ResampleValues == {R(0), R(1), R(3)}
\* Negative (charging), zero, moderate and oversized currents, in amperes.
CurrentValues  == {R(-7200), R(0), R(3600), R(10000)}
DeltaTs        == {R(1), R(2)}
Capacities     == {R(1), R(2)}
SampleValues   == {R(0), Fin(1, 2)}
EvalSamples    == [ecm : SampleValues, pred : SampleValues, true : {R(0), R(1)}]
EvalCurrents   == UNION {[1..k -> {R(0), R(3600)}] : k \in 1..2}
EvalSocs       == UNION {[1..k -> {R(0), R(1)}] : k \in 1..2}
EvalCycles     == [current : EvalCurrents]

PureCalls ==
         {[fn |-> "anchor_resample", a |-> [x |-> x, num_points |-> n]] :
             x \in SeqsUpTo(ResampleValues, MaxLen), n \in 0..MaxPoints}
    \cup {[fn |-> "simple_ecm", a |-> [current |-> c, delta_t |-> dt, capacity |-> cap]] :
             c \in SeqsUpTo(CurrentValues, MaxLen), dt \in DeltaTs, cap \in Capacities}
    \cup {[fn |-> "evaluate_model", a |-> [val_ds |-> ds, ecm_in |-> e]] :
             ds \in SeqsUpTo(EvalSamples, MaxSamples), e \in BOOLEAN}
    \cup {[fn |-> "ecm_baseline_eval", a |-> [val_cycles |-> cs, val_soc |-> ss, num_points |-> n]] :
             cs \in SeqsUpTo(EvalCycles, 2), ss \in SeqsUpTo(EvalSocs, 2), n \in 1..MaxPoints}

-----------------------------------------------------------------------------
(* Idle values of the groups of variables *)

PureIdle  == fn = "none" /\ args = <<>> /\ ret = <<>> /\ fpc = "idle"
ExtIdle   == /\ batteries = <<>> /\ num_points = 0 /\ max_cycles = 0 /\ bidx = 0
             /\ all_data = <<>> /\ csv = <<>> /\ xpc = "idle"
TrainIdle == /\ run = <<>> /\ tpc = <<>> /\ epoch = <<>> /\ weights = <<>>
             /\ best_val_loss = <<>> /\ train_loss_history = <<>>
             /\ val_loss_history = <<>> /\ fed = <<>> /\ saved_at = <<>>
             /\ files = <<>>
LoadIdle  == /\ origin = <<>> /\ df = <<>> /\ ld_args = <<>> /\ split = <<>>
             /\ train_ds = <<>> /\ val_ds = <<>> /\ ecm_result = <<>>
             /\ mpc = "idle"

-----------------------------------------------------------------------------
(* The pure functions, applied to inputs drawn at Init *)

InitPure ==
    /\ \E c \in PureCalls : fn = c.fn /\ args = c.a
    /\ ret = <<>>
    /\ fpc = "call"
    /\ ExtIdle /\ TrainIdle /\ LoadIdle

CallAnchorResample ==
    /\ fpc = "call" /\ fn = "anchor_resample"
    /\ ret' = anchor_resample(args.x, args.num_points)
    /\ fpc' = "returned"
    /\ UNCHANGED <<fn, args, extVars, trainVars, loadVars>>

CallSimpleEcm ==
    /\ fpc = "call" /\ fn = "simple_ecm"
    /\ ret' = simple_ecm(args.current, args.delta_t, args.capacity)
    /\ fpc' = "returned"
    /\ UNCHANGED <<fn, args, extVars, trainVars, loadVars>>

CallEvaluateModel ==
    /\ fpc = "call" /\ fn = "evaluate_model"
    /\ LET r == evaluate_model(args.val_ds, args.ecm_in)
       IN  /\ ret' = r
           /\ fpc' = IF r.raised THEN "raised" ELSE "returned"
    /\ UNCHANGED <<fn, args, extVars, trainVars, loadVars>>

CallEcmBaselineEval ==
    /\ fpc = "call" /\ fn = "ecm_baseline_eval"
    /\ LET r == ecm_baseline_eval(args.val_cycles, args.val_soc, args.num_points)
       IN  /\ ret' = r
           /\ fpc' = IF r.raised THEN "raised" ELSE "returned"
    /\ UNCHANGED <<fn, args, extVars, trainVars, loadVars>>

NextPure ==
    \/ CallAnchorResample
    \/ CallSimpleEcm
    \/ CallEvaluateModel
    \/ CallEcmBaselineEval

SpecPure == InitPure /\ [][NextPure]_vars

-----------------------------------------------------------------------------
(* Claims about the pure functions, under SpecPure *)

Returned(f) == fpc = "returned" /\ fn = f

\* C8: for every current trace of length n >= 0 (negative and oversized
\* samples included) and every positive time step and capacity, simple_ecm
\* returns exactly n values, and each of them, which is the SOC held after
\* the corresponding integration step, lies in [0,1].
C8_EcmInUnit ==
    Returned("simple_ecm") =>
        /\ Len(ret) = Len(args.current)
        /\ \A i \in 1..Len(ret) : InUnit(ret[i])

\* A trace of the longest length holding an oversized and a negative sample.
C8_Witness ==
    /\ Returned("simple_ecm")
    /\ Len(args.current) = MaxLen
    /\ \E i, j \in 1..Len(args.current) :
          args.current[i] = R(10000) /\ args.current[j] = R(-7200)

\* C9 as stated: for every non-empty x and every L >= 1 the result has
\* length L, starts with x[0] and ends with the last element of x.
C9_AnchorsBothEnds ==
    (Returned("anchor_resample") /\ Len(args.x) >= 1 /\ args.num_points >= 1) =>
        /\ Len(ret) = args.num_points
        /\ ret[1] = args.x[1]
        /\ ret[Len(ret)] = args.x[Len(args.x)]

\* C9 amended: for every non-empty x and every L >= 1 the result has length
\* L and starts with x[0]; it ends with the last element of x when L >= 2
\* or x has one element.  (For L = 1 the only element is x[0].)
C9_AnchorsAmended ==
    (Returned("anchor_resample") /\ Len(args.x) >= 1 /\ args.num_points >= 1) =>
        /\ Len(ret) = args.num_points
        /\ ret[1] = args.x[1]
        /\ (args.num_points >= 2 \/ Len(args.x) = 1) =>
               ret[Len(ret)] = args.x[Len(args.x)]

\* An interpolated call: three distinct-ended samples onto two or more points.
C9_Witness ==
    /\ Returned("anchor_resample")
    /\ Len(args.x) = 3 /\ args.x[1] # args.x[3]
    /\ args.num_points >= 2
    /\ ret[Len(ret)] = args.x[3]

\* C10: when every true value is the same, evaluate_model and
\* ecm_baseline_eval do not return nan or an infinity as the R^2 metric
\* (they signal that R^2 is undefined instead).
C10_R2Signalled ==
    ((Returned("evaluate_model") \/ Returned("ecm_baseline_eval"))
        /\ ZeroVariance(ret.trues)) => IsFinite(ret.r2)

\* C12: for every target length L >= 0, anchor_resample of the empty
\* sequence is the all-zero sequence of length L, and anchor_resample of a
\* one-element sequence [v] is the constant sequence of value v and length L.
C12_DegenerateInputs ==
    Returned("anchor_resample") =>
        /\ Len(args.x) = 0 =>
               /\ Len(ret) = args.num_points
               /\ \A j \in 1..Len(ret) : ret[j] = R(0)
        /\ Len(args.x) = 1 =>
               /\ Len(ret) = args.num_points
               /\ \A j \in 1..Len(ret) : ret[j] = args.x[1]

\* A one-element input of a non-zero value resampled onto the longest target.
C12_Witness ==
    /\ Returned("anchor_resample")
    /\ args.x = <<R(3)>>
    /\ args.num_points = MaxPoints
    /\ ret = [j \in 1..MaxPoints |-> R(3)]

-----------------------------------------------------------------------------
(* Extraction: process_battery and preprocess_and_save_csv *)

\* The module-level MAX_CYCLES that process_battery reads (1000 in the
\* source; scaled down here so that a battery can reach it).
MAX_CYCLES == 3

\* Python values.  A dict is a record holding the keys it has; a list is a
\* sequence; a non-dict scalar met where a dict is expected is PyScalar.
PyScalar  == [py_scalar |-> TRUE]
IsDict(c) == "py_scalar" \notin DOMAIN c

\* str(c.get("type", "")).lower()
Lower(t) ==
    CASE t \in {"discharge", "Discharge", "DISCHARGE"} -> "discharge"
      [] t \in {"charge", "Charge"} -> "charge"
      [] OTHER -> t
cyc_type_of(c) == Lower(IF "type" \in DOMAIN c THEN c.type ELSE "")

\* dat.get(k1, dat.get(k2, np.array([])))
get_channel(dat, k1, k2) ==
    IF k1 \in DOMAIN dat THEN dat[k1]
    ELSE IF k2 \in DOMAIN dat THEN dat[k2]
    ELSE <<>>

\* np.squeeze of a one-dimensional array: an array of exactly one element
\* becomes a zero-dimensional array, which has no len().
squeeze(a) == [ndim |-> IF Len(a) = 1 THEN 0 ELSE 1, v |-> a]
Sized(a)   == a.ndim = 1

\* soc_r = 1.0 - time_r / (time_r[-1] if len(time_r) > 0 else 1.0)
soc_from_time(time_r) ==
    LET last == IF Len(time_r) > 0 THEN time_r[Len(time_r)] ELSE R(1)
    IN  [j \in 1..Len(time_r) |-> FSub(R(1), FDiv(time_r[j], last))]

\* What one entry of the cycle collection does to the loop (lines 72-122):
\* "skip" (a continue), "row" (a row is appended) or "raise" (an exception
\* no handler of process_battery catches: len() of a zero-dimensional
\* array, at line 93 or inside anchor_resample).
entry_outcome(c) ==
    IF ~IsDict(c) THEN "skip"
    ELSE IF cyc_type_of(c) # "discharge" THEN "skip"
    ELSE LET dat         == IF "data" \in DOMAIN c THEN c.data ELSE [none |-> 0]
             voltage     == squeeze(get_channel(dat, "Voltage_measured", "voltage"))
             current     == squeeze(get_channel(dat, "Current_measured", "current"))
             temperature == squeeze(get_channel(dat, "Temperature_measured", "temperature"))
             time        == squeeze(get_channel(dat, "Time", "time"))
         IN  IF ~Sized(voltage) THEN "raise"
             ELSE IF Len(voltage.v) < 5 THEN "skip"
             ELSE IF ~Sized(current) THEN "raise"
             ELSE IF Len(current.v) < 5 THEN "skip"
             ELSE IF ~Sized(temperature) \/ ~Sized(time) THEN "raise"
             ELSE "row"

\* The row built from an accepted entry at position i (0-based) of the
\* collection (lines 95-119).  The static metadata columns, the timestamp,
\* the ambient temperature and the capacity are copied through and read by
\* nothing modelled here; they are left out of the row.
make_row(battery_id, c, i, np) ==
    LET dat    == c.data
        time_r == anchor_resample(get_channel(dat, "Time", "time"), np)
    IN  [battery_id  |-> battery_id,
         cycle_id    |-> IF "index" \in DOMAIN c THEN c.index ELSE i,
         voltage     |-> anchor_resample(get_channel(dat, "Voltage_measured", "voltage"), np),
         current     |-> anchor_resample(get_channel(dat, "Current_measured", "current"), np),
         temperature |-> anchor_resample(get_channel(dat, "Temperature_measured", "temperature"), np),
         time        |-> time_r,
         soc         |-> soc_from_time(time_r)]

\* if len(results) >= MAX_CYCLES: break
cap_reached(results) == Len(results) >= MAX_CYCLES

\* The for loop of process_battery from position i (1-based) on.
RECURSIVE pb_loop(_, _, _, _, _)
pb_loop(battery_id, cycles, i, results, np) ==
    IF i > Len(cycles) THEN [raised |-> FALSE, results |-> results]
    ELSE LET o == entry_outcome(cycles[i])
         IN  IF o = "raise" THEN [raised |-> TRUE, results |-> <<>>]
             ELSE IF o = "skip" THEN pb_loop(battery_id, cycles, i + 1, results, np)
             ELSE LET results1 == Append(results, make_row(battery_id, cycles[i], i - 1, np))
                  IN  IF cap_reached(results1)
                      THEN [raised |-> FALSE, results |-> results1]
                      ELSE pb_loop(battery_id, cycles, i + 1, results1, np)

\* process_battery: no .mat file, a load failure and a missing "cycle"
\* field all return []; a single cycle dict is treated as a one-entry list.
process_battery(battery_id, battery_meta, np) ==
    IF "no_file" \in DOMAIN battery_meta.mat THEN [raised |-> FALSE, results |-> <<>>]
    ELSE IF "cycle" \notin DOMAIN battery_meta.mat THEN [raised |-> FALSE, results |-> <<>>]
    ELSE LET cyc    == battery_meta.mat.cycle
             cycles == IF "one" \in DOMAIN cyc THEN <<cyc.one>> ELSE cyc.many
         IN  pb_loop(battery_id, cycles, 1, <<>>, np)

\* battery_meta.get("usable", True)
usable(battery_meta) ==
    IF "usable" \in DOMAIN battery_meta THEN battery_meta.usable ELSE TRUE

\* One iteration of the loop over batteries.items() (lines 130-136).
LoopBattery ==
    /\ xpc = "loop"
    /\ bidx < Len(batteries)
    /\ LET b == batteries[bidx + 1]
       IN  IF ~usable(b)
           THEN /\ bidx' = bidx + 1
                /\ UNCHANGED <<all_data, xpc>>
           ELSE LET r == process_battery(b.id, b, num_points)
                IN  IF r.raised
                    THEN /\ xpc' = "raised"
                         /\ UNCHANGED <<all_data, bidx>>
                    ELSE /\ all_data' = all_data \o r.results
                         /\ bidx' = bidx + 1
                         /\ xpc' = IF Len(all_data') >= max_cycles THEN "save" ELSE "loop"
    /\ UNCHANGED <<batteries, num_points, max_cycles, csv, pureVars, trainVars, loadVars>>

\* The loop ran out of batteries.
LoopEnd ==
    /\ xpc = "loop"
    /\ bidx >= Len(batteries)
    /\ xpc' = "save"
    /\ UNCHANGED <<batteries, num_points, max_cycles, bidx, all_data, csv,
                   pureVars, trainVars, loadVars>>

\* df = pd.DataFrame(all_data); df.to_csv(csv_path)
SaveCsv ==
    /\ xpc = "save"
    /\ csv' = all_data
    /\ xpc' = "done"
    /\ UNCHANGED <<batteries, num_points, max_cycles, bidx, all_data,
                   pureVars, trainVars, loadVars>>

NextExtract == LoopBattery \/ LoopEnd \/ SaveCsv

-----------------------------------------------------------------------------
(* Inputs of the extraction *)

Samples(n) == [i \in 1..n |-> R(i)]
NoKeys     == [none |-> 0]                 \* a dict with none of the keys read

\* A discharge cycle with every channel present, and a charge cycle.
GoodData    == [Voltage_measured |-> Samples(5), Current_measured |-> Samples(5),
                Temperature_measured |-> Samples(5), Time |-> <<R(0), R(10), R(20)>>]
GoodEntry   == [type |-> "discharge", data |-> GoodData]
ChargeEntry == [type |-> "charge", data |-> GoodData]

\* Batteries for the cycle cap: unusable, without a .mat file, or with up
\* to MaxCyclesPerBattery discharge/charge entries.
CountedBatteries(id) ==
         {[id |-> id, usable |-> FALSE, mat |-> [cycle |-> [many |-> <<GoodEntry>>]]],
          [id |-> id, mat |-> [no_file |-> TRUE]]}
    \cup {[id |-> id, mat |-> [cycle |-> [many |-> cs]]] :
             cs \in SeqsUpTo({GoodEntry, ChargeEntry}, MaxCyclesPerBattery)}

CountedInputs ==
    UNION {{bs \in [1..k -> UNION {CountedBatteries(i) : i \in 1..k}] :
               \A i \in 1..k : bs[i].id = i} : k \in 0..MaxBatteries}

\* Entries for the filter: every tag with every voltage/current shape.
TagOptions     == {NoKeys, [type |-> "charge"], [type |-> "impedance"],
                   [type |-> "discharge"], [type |-> "Discharge"]}
VoltageOptions == {NoKeys, [Voltage_measured |-> Samples(1)],
                   [Voltage_measured |-> Samples(4)], [Voltage_measured |-> Samples(5)],
                   [voltage |-> Samples(6)]}
CurrentOptions == {NoKeys, [Current_measured |-> Samples(1)],
                   [Current_measured |-> Samples(4)], [current |-> Samples(5)]}
FilterEntries ==
    {PyScalar} \cup
    {t @@ [data |-> v @@ c @@ [Temperature_measured |-> Samples(5),
                               Time |-> <<R(0), R(10), R(20)>>]] :
        t \in TagOptions, v \in VoltageOptions, c \in CurrentOptions}

\* Entries for the SOC curve: accepted voltage and current, every shape of
\* the temperature and time channels.
TemperatureOptions == {NoKeys, [Temperature_measured |-> Samples(1)],
                       [temperature |-> Samples(5)]}
TimeOptions == {NoKeys, [Time |-> <<>>], [Time |-> <<R(7)>>],
                [Time |-> <<R(0), R(0)>>], [Time |-> <<R(0), R(10)>>],
                [time |-> <<R(0), R(10), R(20)>>], [Time |-> <<R(0), R(20), R(10)>>],
                [Time |-> <<R(20), R(10), R(0)>>], [Time |-> <<R(5), R(10)>>]}
SocEntries ==
    {[type |-> "discharge",
      data |-> [Voltage_measured |-> Samples(5), Current_measured |-> Samples(5)] @@ tp @@ tm] :
        tp \in TemperatureOptions, tm \in TimeOptions}

CycleCollections ==
         {[many |-> cs] : cs \in SeqsUpTo(FilterEntries \cup SocEntries, 2)}
    \cup {[one |-> c] : c \in (FilterEntries \ {PyScalar}) \cup SocEntries}

InitExtract ==
    /\ \/ /\ batteries \in CountedInputs
          /\ num_points = 2
          /\ max_cycles \in 1..MaxCap
       \/ /\ batteries \in {<<[id |-> 1, mat |-> [cycle |-> cc]]>> : cc \in CycleCollections}
          /\ num_points \in 1..MaxPoints
          /\ max_cycles = MAX_CYCLES
    /\ bidx = 0 /\ all_data = <<>> /\ csv = <<>> /\ xpc = "loop"
    /\ PureIdle /\ TrainIdle /\ LoadIdle

SpecExtract == InitExtract /\ [][NextExtract]_vars

-----------------------------------------------------------------------------
(* Claims about the extraction, under SpecExtract *)

\* The entries of a battery's cycle collection, as process_battery walks them.
CyclesOf(b) ==
    IF "cycle" \notin DOMAIN b.mat THEN <<>>
    ELSE IF "one" \in DOMAIN b.mat.cycle THEN <<b.mat.cycle.one>>
    ELSE b.mat.cycle.many

RowsOf(id) == {i \in 1..Len(all_data) : all_data[i].battery_id = id}

\* C2: the number of cycle rows retained by preprocess_and_save_csv,
\* accumulated over all batteries, never exceeds max_cycles, neither while
\* the batteries are walked nor in the CSV written.
C2_CapRespected ==
    Len(all_data) <= max_cycles /\ Len(csv) <= max_cycles

\* C6: what the claim calls an entry that yields a row: a type tag equal to
\* "discharge" ignoring case, and voltage and current arrays of length >= 5.
Acceptable(c) ==
    /\ IsDict(c)
    /\ cyc_type_of(c) = "discharge"
    /\ "data" \in DOMAIN c
    /\ Len(get_channel(c.data, "Voltage_measured", "voltage")) >= 5
    /\ Len(get_channel(c.data, "Current_measured", "current")) >= 5

\* C6: process_battery raises no error, and for every battery it has
\* walked (below the per-battery cap) the rows it returned are exactly the
\* acceptable entries of the collection: every other entry was skipped
\* silently and kept no later entry from being processed.
C6_RowIffAcceptable ==
    /\ xpc # "raised"
    /\ \A k \in 1..bidx :
          LET b   == batteries[k]
              acc == {i \in 1..Len(CyclesOf(b)) : Acceptable(CyclesOf(b)[i])}
          IN  (usable(b) /\ Cardinality(acc) < MAX_CYCLES) =>
                  {all_data[r].cycle_id : r \in RowsOf(b.id)} = {i - 1 : i \in acc}

\* C7: every value of the SOC-from-time curve of every retained row lies
\* in [0,1].
C7_SocInUnit ==
    \A r \in 1..Len(all_data) :
        \A j \in 1..Len(all_data[r].soc) : InUnit(all_data[r].soc[j])

-----------------------------------------------------------------------------
(* Training: train_model and the evaluate_model call that follows it *)

Runs      == {1, 2}
LossTypes == {"mse", "physics"}
Archs     == {"dense", "lstm"}
\* model.name: Keras numbers the models of one process ("functional",
\* "functional_1", ..); nothing in the source sets it.
Names     == {"functional", "functional_1"}

\* A model's parameters are identified by who produced them and when: the
\* parameters of run `by` after `at` epochs (at = 0: as built).  by = 0
\* marks parameters left on disk by an earlier execution of the program.
Params(by, at, arch) == [by |-> by, at |-> at, arch |-> arch]
NoFile == [by |-> -1, at |-> 0, arch |-> "none"]

\* f'best_{loss_type}_{model.name}.weights.h5'
checkpoint_file(r) == <<r.loss_type, r.name>>
FileNames == LossTypes \X Names

\* One epoch of run i (lines 279-312): the batches are trained on and
\* validated, the mean losses are appended to the histories, and the
\* weights are saved when the validation loss is lower than the best seen.
Epoch(i) ==
    /\ tpc[i] = "loop"
    /\ epoch[i] < run[i].epochs
    /\ LET r              == run[i]
           e              == epoch[i] + 1
           avg_train_loss == r.losses[e].train
           avg_val_loss   == r.losses[e].val
           w              == Params(i, e, r.arch)
           improved       == FLt(avg_val_loss, best_val_loss[i])
       IN  /\ weights' = [weights EXCEPT ![i] = w]
           /\ fed' = [fed EXCEPT ![i] =
                         [train |-> train_pred_soc(r.loss_type, r.ecm_in, r.batch.ecm, r.batch.pred),
                          val   |-> val_pred_soc(r.loss_type, r.ecm_in, r.batch.ecm, r.batch.pred),
                          eval  |-> NaN]]
           /\ train_loss_history' = [train_loss_history EXCEPT ![i] = Append(@, avg_train_loss)]
           /\ val_loss_history' = [val_loss_history EXCEPT ![i] = Append(@, avg_val_loss)]
           /\ best_val_loss' = [best_val_loss EXCEPT ![i] = IF improved THEN avg_val_loss ELSE @]
           /\ files' = IF improved THEN [files EXCEPT ![checkpoint_file(r)] = w] ELSE files
           /\ saved_at' = [saved_at EXCEPT ![i] = IF improved THEN @ \cup {e} ELSE @]
           /\ epoch' = [epoch EXCEPT ![i] = e]
    /\ UNCHANGED <<run, tpc, pureVars, extVars, loadVars>>

\* After the loop (lines 313-314): model.load_weights of the run's file,
\* which raises when the file does not exist or holds the weights of
\* another architecture, then the return of the two histories.
Restore(i) ==
    /\ tpc[i] = "loop"
    /\ epoch[i] = run[i].epochs
    /\ LET f == files[checkpoint_file(run[i])]
       IN  IF f = NoFile \/ f.arch # run[i].arch
           THEN /\ tpc' = [tpc EXCEPT ![i] = "raised"]
                /\ UNCHANGED weights
           ELSE /\ tpc' = [tpc EXCEPT ![i] = "returned"]
                /\ weights' = [weights EXCEPT ![i] = f]
    /\ UNCHANGED <<run, epoch, best_val_loss, train_loss_history, val_loss_history,
                   fed, saved_at, files, pureVars, extVars, loadVars>>

\* main's evaluate_model(model, val_ds, ecm_in=<the flag given to
\* train_model>) on the trained model (lines 545, 555, 565, 575, 585).
Evaluate(i) ==
    /\ tpc[i] = "returned"
    /\ fed' = [fed EXCEPT ![i].eval =
                  eval_pred_soc(run[i].ecm_in, run[i].batch.ecm, run[i].batch.pred)]
    /\ tpc' = [tpc EXCEPT ![i] = "evaluated"]
    /\ UNCHANGED <<run, epoch, weights, best_val_loss, train_loss_history,
                   val_loss_history, saved_at, files, pureVars, extVars, loadVars>>

NextTrain == \E i \in Runs : Epoch(i) \/ Restore(i) \/ Evaluate(i)

-----------------------------------------------------------------------------
(* Inputs of the training *)

\* The mean training and validation loss an epoch ends with.
Losses(t, v) == [train |-> t, val |-> v]
EpochLosses  == {Losses(R(1), R(1)), Losses(R(1), R(2)), Losses(R(1), R(3)),
                 Losses(R(1), NaN), Losses(R(1), PInf), Losses(NaN, R(2)),
                 Losses(PInf, NaN)}
ShortLosses  == {<<Losses(R(1), R(2))>>,
                 <<Losses(R(1), R(2)), Losses(R(1), R(1))>>,
                 <<Losses(R(1), R(1)), Losses(R(1), R(2))>>}
\* One batch: the baseline and the model's output for it.
BatchValues  == {[ecm |-> Fin(1, 2), pred |-> Fin(1, 4)],
                 [ecm |-> R(1), pred |-> Fin(-1, 4)]}

RunArgs(lt, e, a, n, ls, b) ==
    [loss_type |-> lt, ecm_in |-> e, arch |-> a, name |-> n,
     epochs |-> Len(ls), losses |-> ls, batch |-> b]

\* One run, alone, over every loss sequence of up to MaxEpochs epochs; its
\* checkpoint file is absent or left by an earlier execution.
SingleRuns ==
    {RunArgs(lt, e, "dense", "functional", ls, b) :
        lt \in LossTypes, e \in BOOLEAN, ls \in SeqsUpTo(EpochLosses, MaxEpochs),
        b \in BatchValues}

\* Two runs, sequential or interleaved, over every pair of keys and names.
PairedRuns ==
    {RunArgs(lt, e, a, n, ls, [ecm |-> Fin(1, 2), pred |-> Fin(1, 4)]) :
        lt \in LossTypes, e \in BOOLEAN, a \in Archs, n \in Names, ls \in ShortLosses}

InitTrain ==
    /\ \/ /\ \E r \in SingleRuns : run = <<r, r>>
          /\ tpc = <<"loop", "off">>
          /\ \E st \in {NoFile, Params(0, 0, "dense"), Params(0, 0, "lstm")} :
                files = [f \in FileNames |-> st]
       \/ /\ run \in [Runs -> PairedRuns]
          /\ tpc = <<"loop", "loop">>
          /\ files = [f \in FileNames |-> NoFile]
    /\ epoch = [i \in Runs |-> 0]
    /\ weights = [i \in Runs |-> Params(i, 0, run[i].arch)]
    /\ best_val_loss = [i \in Runs |-> PInf]
    /\ train_loss_history = [i \in Runs |-> <<>>]
    /\ val_loss_history = [i \in Runs |-> <<>>]
    /\ fed = [i \in Runs |-> [train |-> NaN, val |-> NaN, eval |-> NaN]]
    /\ saved_at = [i \in Runs |-> {}]
    /\ PureIdle /\ ExtIdle /\ LoadIdle

SpecTrain == InitTrain /\ [][NextTrain]_vars

-----------------------------------------------------------------------------
(* Claims about the training, under SpecTrain *)

Returned_(i) == tpc[i] \in {"returned", "evaluated"}

\* The epochs whose validation loss no other epoch's loss is lower than
\* (an epoch with a nan loss counts: nothing compares lower than nan).
LowestEpochs(h) ==
    {e \in 1..Len(h) : \A e2 \in 1..Len(h) : ~FLt(h[e2], h[e])}

\* C1: for any sequence of validation losses over at least one epoch, when
\* train_model (running alone) returns, the model's parameters are those it
\* had at the end of an epoch with the lowest validation loss of the run.
\* (Stated for the sequences without nan, whose lowest loss is defined.)
C1_BestRestored ==
    (/\ tpc[2] = "off" /\ Returned_(1) /\ run[1].epochs >= 1
     /\ \A e \in 1..Len(val_loss_history[1]) : ~IsNaN(val_loss_history[1][e])) =>
        \E e \in LowestEpochs(val_loss_history[1]) :
            weights[1] = Params(1, e, run[1].arch)

\* The composition the claim requires for a composition flag.
Composed(r) ==
    IF r.ecm_in THEN FAdd(r.batch.ecm, r.batch.pred) ELSE r.batch.pred

\* C3: for every loss kind and composition kind, the prediction fed to the
\* loss in the training pass and in the validation pass is the raw model
\* output when the composition is absolute and baseline + output when it
\* is residual, and evaluate_model applies that same composition.
C3_SameComposition ==
    \A i \in Runs :
        (tpc[i] # "off" /\ epoch[i] >= 1) =>
            /\ fed[i].train = Composed(run[i])
            /\ fed[i].val = Composed(run[i])
            /\ tpc[i] = "evaluated" => fed[i].eval = Composed(run[i])

\* The key the claim gives a checkpoint slot.
Key(r) == <<r.loss_type, r.ecm_in, r.arch>>
\* The run has written its checkpoint file or has gone to read it.
Touched(i) == saved_at[i] # {} \/ tpc[i] \in {"returned", "raised", "evaluated"}

\* C4: two runs whose keys differ in the loss kind, the composition kind or
\* the architecture never write to or restore from the same slot, and a
\* run never holds, restored, the parameters saved by a run of another key.
C4_SlotsExclusive ==
    \A i, j \in Runs :
        (i # j /\ tpc[i] # "off" /\ tpc[j] # "off" /\ Key(run[i]) # Key(run[j])) =>
            /\ (Touched(i) /\ Touched(j)) =>
                   checkpoint_file(run[i]) # checkpoint_file(run[j])
            /\ Returned_(i) => weights[i].by # j

\* The epochs of run i that ended with a non-finite training or validation loss.
NonFiniteAt(i) ==
    {e \in 1..Len(val_loss_history[i]) :
        ~IsFinite(val_loss_history[i][e]) \/ ~IsFinite(train_loss_history[i][e])}

\* C5: an epoch whose training or validation loss is non-finite aborts the
\* run with an error: no later epoch runs, no checkpoint is written for
\* that epoch, and the run does not return its histories.
C5_NonFiniteAborts ==
    \A i \in Runs : \A e \in NonFiniteAt(i) :
        /\ tpc[i] = "raised"
        /\ epoch[i] = e
        /\ e \notin saved_at[i]

\* What the code does keep of the checkpoint policy: a run that is alone
\* and saved at least once returns with the parameters of the first epoch
\* among those of lowest validation loss.
BestRestoredWhenSaved ==
    (tpc[2] = "off" /\ Returned_(1) /\ saved_at[1] # {}) =>
        \E e \in LowestEpochs(val_loss_history[1]) :
            /\ weights[1] = Params(1, e, run[1].arch)
            /\ \A e2 \in 1..(e - 1) : FLt(val_loss_history[1][e], val_loss_history[1][e2])
                                       \/ IsNaN(val_loss_history[1][e2])

\* C13: the snapshot train_model restores after its epoch loop was written
\* during that same call, whatever the epoch count (zero included) and the
\* validation losses (all nan or +inf included), and whether or not a file
\* of an earlier run exists: a run (alone) that returns holds the parameters
\* it saved itself at one of its own epochs.
C13_RestoredOwnSnapshot ==
    (tpc[2] = "off" /\ Returned_(1)) =>
        /\ weights[1].by = 1
        /\ weights[1].at \in saved_at[1]

-----------------------------------------------------------------------------
(* Loading: main's steps 2 and 3 (load_cycles_from_csv, make_tf_dataset,   *)
(* ecm_baseline_eval on the validation part)                                *)

\* pd.read_csv(csv_path) of what df.to_csv wrote: the rows, each wide
\* column group (voltage_0.., current_0.., ..) kept as one sequence.  The
\* floats are written with their shortest round-trip text and read back
\* unchanged.  A CSV written from an empty frame has no column: read_csv
\* either raises (EmptyDataError) or yields a frame without rows.
read_csv(rows) ==
    IF rows = <<>> THEN {[raised |-> TRUE], [raised |-> FALSE, rows |-> <<>>]}
    ELSE {[raised |-> FALSE, rows |-> rows]}

\* [row[f'voltage_{j}'] for j in range(num_points)]: the first num_points
\* columns of a group.
columns(group, np) == SubSeq(group, 1, np)

\* The for loop of load_cycles_from_csv from row i (1-based) on (lines
\* 179-189): a row with fewer than num_points columns of a group raises
\* KeyError; the cap is tested after the row is appended.
RECURSIVE load_loop(_, _, _, _, _, _)
load_loop(rows, i, all_cycles, all_socs, np, mc) ==
    IF i > Len(rows) THEN [raised |-> FALSE, all_cycles |-> all_cycles, all_socs |-> all_socs]
    ELSE LET row == rows[i]
         IN  IF \/ Len(row.voltage) < np \/ Len(row.current) < np
                \/ Len(row.temperature) < np \/ Len(row.soc) < np
             THEN [raised |-> TRUE]
             ELSE LET cycle == [voltage     |-> columns(row.voltage, np),
                                current     |-> columns(row.current, np),
                                temperature |-> columns(row.temperature, np)]
                      cycles1 == Append(all_cycles, cycle)
                      socs1   == Append(all_socs, columns(row.soc, np))
                  IN  IF Len(cycles1) >= mc
                      THEN [raised |-> FALSE, all_cycles |-> cycles1, all_socs |-> socs1]
                      ELSE load_loop(rows, i + 1, cycles1, socs1, np, mc)

\* split_idx = int(0.8 * len(all_cycles)): the float product truncated,
\* which is floor(4n/5) for every n a list can have.
split_idx_of(n) == (4 * n) \div 5

load_cycles_from_csv(rows, np, mc) ==
    LET l == load_loop(rows, 1, <<>>, <<>>, np, mc)
    IN  IF l.raised THEN [raised |-> TRUE]
        ELSE LET n         == Len(l.all_cycles)
                 split_idx == split_idx_of(n)
             IN  [raised       |-> FALSE,
                  train_cycles |-> SubSeq(l.all_cycles, 1, split_idx),
                  train_soc    |-> SubSeq(l.all_socs, 1, split_idx),
                  val_cycles   |-> SubSeq(l.all_cycles, split_idx + 1, n),
                  val_soc      |-> SubSeq(l.all_socs, split_idx + 1, n)]

\* make_tf_dataset: per cycle the baseline curve and the target, as the
\* tensors the dataset is sliced from (lines 196-207).  The feature tensor
\* feeds only the network and is left out; shuffle and batch reorder and
\* group the elements at iteration time and change none of them.
make_tf_dataset(cycles, socs, np) ==
    LET k == IF Len(cycles) < Len(socs) THEN Len(cycles) ELSE Len(socs)
    IN  [i \in 1..k |->
            [ecm_soc  |-> anchor_resample(simple_ecm(cycles[i].current,
                                                     DefaultDeltaT, DefaultCapacity), np),
             true_soc |-> anchor_resample(socs[i], np)]]

\* main, step 2, first statement (lines 520-524).
LoadCsv ==
    /\ mpc = "load"
    /\ \E r \in read_csv(df) :
          IF r.raised
          THEN /\ mpc' = "raised"
               /\ UNCHANGED split
          ELSE LET l == load_cycles_from_csv(r.rows, ld_args.num_points, ld_args.max_cycles)
               IN  IF l.raised
                   THEN /\ mpc' = "raised"
                        /\ UNCHANGED split
                   ELSE /\ split' = l
                        /\ mpc' = "loaded"
    /\ UNCHANGED <<origin, df, ld_args, train_ds, val_ds, ecm_result,
                   pureVars, extVars, trainVars>>

\* main, rest of step 2 (lines 526-528): compute_minmax raises when no
\* cycle was loaded (np.concatenate of an empty list); then the two
\* datasets are built.
MakeDatasets ==
    /\ mpc = "loaded"
    /\ IF split.train_cycles \o split.val_cycles = <<>>
       THEN /\ mpc' = "raised"
            /\ UNCHANGED <<train_ds, val_ds>>
       ELSE /\ train_ds' = make_tf_dataset(split.train_cycles, split.train_soc, ld_args.num_points)
            /\ val_ds' = make_tf_dataset(split.val_cycles, split.val_soc, ld_args.num_points)
            /\ mpc' = "datasets"
    /\ UNCHANGED <<origin, df, ld_args, split, ecm_result, pureVars, extVars, trainVars>>

\* main, step 3 (line 534).
BaselineEval ==
    /\ mpc = "datasets"
    /\ LET r == ecm_baseline_eval(split.val_cycles, split.val_soc, ld_args.num_points)
       IN  /\ ecm_result' = r
           /\ mpc' = IF r.raised THEN "raised" ELSE "done"
    /\ UNCHANGED <<origin, df, ld_args, split, train_ds, val_ds,
                   pureVars, extVars, trainVars>>

NextLoad == LoadCsv \/ MakeDatasets \/ BaselineEval

-----------------------------------------------------------------------------
(* Inputs of the loading *)

MaxRows == 6    \* most rows of a CSV given to load_cycles_from_csv

\* The row process_battery builds for a cycle whose channels all hold the
\* value k and whose SOC curve holds k/10, over np points.
FlatRow(k, np) ==
    [battery_id |-> 1, cycle_id |-> k,
     voltage |-> [j \in 1..np |-> R(k)], current |-> [j \in 1..np |-> R(k)],
     temperature |-> [j \in 1..np |-> R(k)], time |-> [j \in 1..np |-> R(0)],
     soc |-> [j \in 1..np |-> Fin(k, 10)]]

\* CSVs of up to MaxRows distinct rows of two points, in either order.
Tables ==
    UNION {{[i \in 1..n |-> FlatRow(i, 2)], [i \in 1..n |-> FlatRow(n + 1 - i, 2)]} :
              n \in 0..MaxRows}

\* A discharge cycle of n samples of a constant current of amps amperes,
\* one sample every dt seconds from 0 on.
SteadyCycle(n, amps, dt) ==
    [type |-> "discharge",
     data |-> [Voltage_measured |-> Samples(n), Current_measured |-> [j \in 1..n |-> R(amps)],
               Temperature_measured |-> Samples(n), Time |-> [j \in 1..n |-> R((j - 1) * dt)]]]

\* Metadata of one usable battery of nominal capacity c0 (ampere-hours)
\* with one discharge cycle.
SteadyBatteries ==
    {<<[id |-> 1, usable |-> TRUE, c0 |-> R(c0),
        mat |-> [cycle |-> [many |-> <<SteadyCycle(n, amps, dt)>>]]]>> :
        c0 \in {1, 2}, n \in {5, 10}, amps \in {1, 2}, dt \in {1, 360}}

InitLoad ==
    /\ \/ /\ origin = <<>>
          /\ df \in Tables
          /\ ld_args \in [num_points : 1..3, max_cycles : 0..(MaxRows + 1)]
       \/ /\ origin \in SteadyBatteries
          /\ \E np \in {2, 5, 10} :
                /\ df = process_battery(origin[1].id, origin[1], np).results
                /\ ld_args = [num_points |-> np, max_cycles |-> MAX_CYCLES]
    /\ split = <<>> /\ train_ds = <<>> /\ val_ds = <<>> /\ ecm_result = <<>>
    /\ mpc = "load"
    /\ PureIdle /\ ExtIdle /\ TrainIdle

SpecLoad == InitLoad /\ [][NextLoad]_vars

-----------------------------------------------------------------------------
(* Claims about the loading, under SpecLoad *)

\* The raw cycle the CSV's one row was extracted from, its time step and
\* the nominal capacity of its battery.
RawCycle     == origin[1].mat.cycle.many[1].data
TimeStep     == FSub(RawCycle.Time[2], RawCycle.Time[1])
\* The coulomb count over the cycle's current with the battery's nominal
\* capacity and the cycle's time step, resampled as the baseline is.
CoulombCount ==
    anchor_resample(simple_ecm(RawCycle.Current_measured, TimeStep, origin[1].c0),
                    ld_args.num_points)
\* |a - b| <= 1/10
Near(a, b) == FLe(FAbs(FSub(a, b)), Fin(1, 10))

\* C11: end to end, the baseline curve the pipeline produces for a cycle
\* (in the validation dataset of make_tf_dataset and in the predictions of
\* ecm_baseline_eval) is, within a tenth at every point, the coulomb count
\* over the cycle's current with the battery's nominal capacity and the
\* cycle's time step: 10 samples of 1 A over 3600 s at 2 Ah end near 0.5.
C11_BaselineIsCoulombCount ==
    (origin # <<>> /\ mpc \in {"datasets", "done"}) =>
        /\ Len(val_ds) = 1
        /\ \A j \in 1..ld_args.num_points : Near(val_ds[1].ecm_soc[j], CoulombCount[j])
        /\ mpc = "done" =>
              \A j \in 1..ld_args.num_points : Near(ecm_result.preds[j], CoulombCount[j])

\* What load_cycles_from_csv returned, the two parts put end to end.
LoadedCycles == split.train_cycles \o split.val_cycles
LoadedSocs   == split.train_soc \o split.val_soc
\* The cycle and the SOC target a row of the CSV holds.
CycleOfRow(row) ==
    [voltage     |-> SubSeq(row.voltage, 1, ld_args.num_points),
     current     |-> SubSeq(row.current, 1, ld_args.num_points),
     temperature |-> SubSeq(row.temperature, 1, ld_args.num_points)]
SocOfRow(row) == SubSeq(row.soc, 1, ld_args.num_points)

\* The split the claim describes, of the n cycles loaded.
SplitAsClaimed ==
    LET n == Len(LoadedCycles)
    IN  /\ n <= ld_args.max_cycles
        /\ n <= Len(df)
        /\ \A i \in 1..n : /\ LoadedCycles[i] = CycleOfRow(df[i])
                           /\ LoadedSocs[i] = SocOfRow(df[i])
        /\ Len(split.train_cycles) = (4 * n) \div 5
        /\ Len(split.train_soc) = Len(split.train_cycles)
        /\ Len(split.val_soc) = Len(split.val_cycles)
        /\ n >= 1 => split.val_cycles # <<>>
        /\ n = 1 => split.train_cycles = <<>>

\* C14: load_cycles_from_csv loads at most max_cycles rows, in row order,
\* and splits them into the first floor(0.8*n) loaded cycles (training) and
\* the remaining ones (validation): every loaded cycle is in exactly one
\* part, each cycle stays paired with its own SOC target, and for n >= 1
\* the validation part is non-empty while the training part is empty when
\* n = 1.
C14_SplitLoaded ==
    split # <<>> => SplitAsClaimed

\* What the code does keep of it: under a cap of at least one row the split
\* is as described.
SplitHoldsForPositiveCap ==
    (split # <<>> /\ ld_args.max_cycles >= 1) => SplitAsClaimed

====
